---- MODULE Spec2Model ----
(***************************************************************************)
(* A model of src/main.rs of codecrafters-git: the object codec, the tree  *)
(* entry parser and the object store.                                      *)
(*                                                                         *)
(* A byte is a number in 0..255.  A Rust String, &str, Vec<u8> or &[u8] is *)
(* the sequence of its bytes (a String holds UTF-8).  A Result is a record *)
(* whose tag is "Ok", "Err" or "Panic" (the thread panicked: an index out  *)
(* of range, an unwrap of Err).                                            *)
(***************************************************************************)
EXTENDS Integers, Sequences, FiniteSets, TLC

\* ------------------------------------------------------------------ bytes

NUL == 0
SP == 32
PLUS == 43
ZERO == 48
LBRACKET == 91
RBRACKET == 93
COMMA == 44

STR_blob == <<98, 108, 111, 98>>
STR_tree == <<116, 114, 101, 101>>
STR_commit == <<99, 111, 109, 109, 105, 116>>
STR_hello == <<104, 101, 108, 108, 111, 10>>

Min(a, b) == IF a < b THEN a ELSE b

\* s[from..to) of Rust, 0-based; the caller has checked the range.
Slice(s, from, to) == SubSeq(s, from + 1, to)

\* The 0-based index of the first b in s, or -1.
RECURSIVE find_from(_, _, _)
find_from(s, b, i) ==
    IF i >= Len(s) THEN -1
    ELSE IF s[i + 1] = b THEN i
    ELSE find_from(s, b, i + 1)

find(s, b) == find_from(s, b, 0)

\* str::split_once on a one-byte pattern.
split_once(s, b) ==
    LET i == find(s, b)
    IN  IF i < 0 THEN [found |-> FALSE, first |-> <<>>, rest |-> <<>>]
        ELSE [found |-> TRUE, first |-> Slice(s, 0, i), rest |-> Slice(s, i + 1, Len(s))]

IsDigit(b) == b >= 48 /\ b <= 57

\* Display of a usize: its decimal digits, no sign, no leading zero.
RECURSIVE usize_to_string(_)
usize_to_string(n) ==
    IF n < 10 THEN <<ZERO + n>>
    ELSE usize_to_string(n \div 10) \o <<ZERO + (n % 10)>>

RECURSIVE digits_value(_, _)
digits_value(s, acc) ==
    IF s = <<>> THEN acc
    ELSE digits_value(Tail(s), acc * 10 + (Head(s) - ZERO))

\* str::parse::<usize>: an optional '+', then at least one decimal digit and
\* nothing else.  -1 stands for Err(ParseIntError).  (The inputs of the model
\* are short: no value reaches usize::MAX.)
parse_usize(s) ==
    LET d == IF s # <<>> /\ Head(s) = PLUS THEN Tail(s) ELSE s
    IN  IF d = <<>> \/ \E i \in 1..Len(d) : ~IsDigit(d[i]) THEN -1
        ELSE digits_value(d, 0)

IsCont(b) == b >= 128 /\ b <= 191

\* String::from_utf8 / read_to_string: whether the bytes are well-formed UTF-8.
RECURSIVE is_utf8(_)
is_utf8(s) ==
    IF s = <<>> THEN TRUE
    ELSE LET b == s[1]
             n == Len(s)
         IN  IF b < 128 THEN is_utf8(Tail(s))
             ELSE IF b >= 194 /\ b <= 223
                  THEN n >= 2 /\ IsCont(s[2]) /\ is_utf8(SubSeq(s, 3, n))
             ELSE IF b >= 224 /\ b <= 239
                  THEN /\ n >= 3
                       /\ IsCont(s[2]) /\ IsCont(s[3])
                       /\ (b = 224 => s[2] >= 160)
                       /\ (b = 237 => s[2] <= 159)
                       /\ is_utf8(SubSeq(s, 4, n))
             ELSE IF b >= 240 /\ b <= 244
                  THEN /\ n >= 4
                       /\ IsCont(s[2]) /\ IsCont(s[3]) /\ IsCont(s[4])
                       /\ (b = 240 => s[2] >= 144)
                       /\ (b = 244 => s[2] <= 143)
                       /\ is_utf8(SubSeq(s, 5, n))
             ELSE FALSE

\* The number of chars of a well-formed UTF-8 string.
char_count(s) == Cardinality({i \in 1..Len(s) : ~IsCont(s[i])})

\* `b as char` pushed on a String: the char U+0000..U+00FF, stored as UTF-8.
push_char(b) == IF b < 128 THEN <<b>> ELSE <<192 + (b \div 64), 128 + (b % 64)>>

HexDigit(n) == IF n < 10 THEN ZERO + n ELSE 87 + n

\* {:02x} of one byte.
hex2(b) == <<HexDigit(b \div 16), HexDigit(b % 16)>>

RECURSIVE to_hex(_)
to_hex(s) == IF s = <<>> THEN <<>> ELSE hex2(Head(s)) \o to_hex(Tail(s))

\* -------------------------------------------------------------- GitObject

Ok(v) == [tag |-> "Ok", err |-> "", val |-> v]
Err(e) == [tag |-> "Err", err |-> e, val |-> <<>>]
Panic == [tag |-> "Panic", err |-> "panic", val |-> <<>>]

Blob(content) == [variant |-> "Blob", content |-> content]
Tree(content) == [variant |-> "Tree", content |-> content]

create_blob_with_content(content) == Blob(content)

get_type(obj) ==
    IF obj.variant = "Blob" THEN STR_blob
    ELSE IF obj.variant = "Tree" THEN STR_tree
    ELSE STR_commit

\* A plausible slip: the size counted in chars, not in bytes.
as_string_chars(obj) ==
    STR_blob \o <<SP>> \o usize_to_string(char_count(obj.content)) \o <<NUL>> \o obj.content

\* format!("blob {}\0{content}", content.len()); called on a Blob only.
as_string(obj) ==
    STR_blob \o <<SP>> \o usize_to_string(Len(obj.content)) \o <<NUL>> \o obj.content

\* ----------------------------------------------------------------- hasher

DIGEST_BYTES == 20
DIGEST_MOD == 251

\* One byte of the digest: a polynomial checksum of the input, with a
\* multiplier of its own.
RECURSIVE digest_byte(_, _, _, _)
digest_byte(s, k, i, h) ==
    IF k > Len(s) THEN h
    ELSE digest_byte(s, k + 1, i, ((h + s[k]) * (i + 2) + i) % DIGEST_MOD)

\* Sha1::input_str then result_str: 20 digest bytes as 40 lowercase hex
\* characters.  The digest of the rust-crypto crate is stood in for by a
\* 20-byte checksum of the same input: deterministic and content-derived.
compute_sha1_hash(content) ==
    to_hex([i \in 1..DIGEST_BYTES |-> digest_byte(content, 1, i, Len(content) % DIGEST_MOD)])

\* ------------------------------------------------------------- compressor

ADLER_MOD == 65521
ZLIB_CMF == 120
ZLIB_FLG == 156
STORED_FINAL == 1
ZLIB_HEADER_LEN == 7
ZLIB_TRAILER_LEN == 4

\* The two sums of Adler-32 over s[k..], as <<a, b>>.
RECURSIVE adler_sums(_, _, _, _)
adler_sums(s, k, a, b) ==
    IF k > Len(s) THEN <<a, b>>
    ELSE LET a2 == (a + s[k]) % ADLER_MOD
         IN  adler_sums(s, k + 1, a2, (b + a2) % ADLER_MOD)

adler32(s) ==
    LET ab == adler_sums(s, 1, 1, 0)
    IN  <<ab[2] \div 256, ab[2] % 256, ab[1] \div 256, ab[1] % 256>>

\* ZlibEncoder::write_all then finish.  The stream of the flate2 crate is
\* modelled as a zlib stream of one stored block: the two header bytes, the
\* block header with the length and its complement, the data, the Adler-32.
zlib_compression(content) ==
    LET n == Len(content)
    IN  Ok(<<ZLIB_CMF, ZLIB_FLG, STORED_FINAL,
             n % 256, n \div 256, 255 - (n % 256), 255 - (n \div 256)>>
           \o content \o adler32(content))

\* The data bytes a (possibly cut) stream holds.
zlib_data(bytes) ==
    IF Len(bytes) < ZLIB_HEADER_LEN THEN <<>>
    ELSE Slice(bytes, ZLIB_HEADER_LEN,
               Min(Len(bytes), ZLIB_HEADER_LEN + bytes[4] + 256 * bytes[5]))

zlib_complete(bytes) ==
    /\ Len(bytes) >= ZLIB_HEADER_LEN + ZLIB_TRAILER_LEN
    /\ bytes[1] = ZLIB_CMF /\ bytes[2] = ZLIB_FLG /\ bytes[3] = STORED_FINAL
    /\ bytes[6] = 255 - bytes[4] /\ bytes[7] = 255 - bytes[5]
    /\ Len(bytes) = ZLIB_HEADER_LEN + bytes[4] + 256 * bytes[5] + ZLIB_TRAILER_LEN
    /\ Slice(bytes, Len(bytes) - ZLIB_TRAILER_LEN, Len(bytes)) = adler32(zlib_data(bytes))

zlib_is_prefix(bytes) ==
    LET full == zlib_compression(zlib_data(bytes)).val
    IN  \/ Len(bytes) < ZLIB_HEADER_LEN
        \/ Len(bytes) <= Len(full) /\ bytes = SubSeq(full, 1, Len(bytes))

\* ZlibDecoder::read_to_end: the results it may give.  A complete stream gives
\* its data.  A stream that ends early gives, depending on the decoder, an
\* error or the data read so far; a stream that is not zlib gives an error.
zlib_decompression(bytes) ==
    IF zlib_complete(bytes) THEN {Ok(zlib_data(bytes))}
    ELSE IF zlib_is_prefix(bytes) THEN {Err("ZlibDecoder"), Ok(zlib_data(bytes))}
    ELSE {Err("ZlibDecoder")}

\* ------------------------------------------------------------ object store

GIT_OBJECT_FOLDER_PATH == "objects"
SHARD_LEN == 2

\* (folder_path, file_name): the folder is the objects folder and the first
\* two characters of the hash, the name the other 38.
sha1_to_file_path(hash) ==
    <<<<GIT_OBJECT_FOLDER_PATH, Slice(hash, 0, SHARD_LEN)>>, Slice(hash, SHARD_LEN, Len(hash))>>

\* ----------------------------------------------------------- object codec

GitObjectParts(git_type, size, content) ==
    [git_type |-> git_type, size |-> size, content |-> content]

parse_str_to_git_object_parts_string(s) ==
    LET a == split_once(s, NUL)
        b == split_once(a.first, SP)
        size == parse_usize(b.rest)
    IN  IF ~a.found THEN Err("InvalidGitObject")
        ELSE IF ~b.found THEN Err("InvalidGitObject")
        ELSE IF size < 0 THEN Err("InvalidGitObject")
        ELSE Ok(GitObjectParts(b.first, size, a.rest))

RECURSIVE push_chars(_)
push_chars(s) == IF s = <<>> THEN <<>> ELSE push_char(Head(s)) \o push_chars(Tail(s))

\* Both loops index s[index] with no check of the length, and the size bytes
\* are unwrapped out of String::from_utf8.
parse_str_to_git_object_parts_bytes(s) ==
    LET i == find(s, SP)
        j == find_from(s, NUL, i + 1)
        size_bytes == Slice(s, i + 1, j)
        size == parse_usize(size_bytes)
    IN  IF i < 0 THEN Panic
        ELSE IF j < 0 THEN Panic
        ELSE IF ~is_utf8(size_bytes) THEN Panic
        ELSE IF size < 0 THEN Err("InvalidGitObject")
        ELSE Ok(GitObjectParts(push_chars(Slice(s, 0, i)), size, Slice(s, j + 1, Len(s))))

from_parts_string(parts) ==
    IF parts.size # Len(parts.content) THEN Err("InvalidGitObject")
    ELSE IF parts.git_type = STR_blob THEN Ok(Blob(parts.content))
    ELSE Err("UnknownGitType")

\* ------------------------------------------------------- tree entry parser

ENTRY_END_OFFSET == 21

MODE_RegularFile == 100644
MODE_ExecutableFile == 100755
MODE_SymbolicLink == 120000
MODE_Directory == 40000

from_mode_value(value) ==
    IF value = MODE_RegularFile THEN Ok("RegularFile")
    ELSE IF value = MODE_ExecutableFile THEN Ok("ExecutableFile")
    ELSE IF value = MODE_SymbolicLink THEN Ok("SymbolicLink")
    ELSE IF value = MODE_Directory THEN Ok("Directory")
    ELSE Err("UnknownEntryMode")

RECURSIVE hex_list(_)
hex_list(s) ==
    IF s = <<>> THEN <<>>
    ELSE IF Len(s) = 1 THEN hex2(s[1])
    ELSE hex2(s[1]) \o <<COMMA, SP>> \o hex_list(Tail(s))

\* format!("{slice:02x?}"): "[00, 0a, ff]".
debug_hex(slice) == <<LBRACKET>> \o hex_list(slice) \o <<RBRACKET>>

\* str::replace(", ", "").
RECURSIVE remove_comma_space(_)
remove_comma_space(s) ==
    IF s = <<>> THEN <<>>
    ELSE IF Len(s) >= 2 /\ s[1] = COMMA /\ s[2] = SP THEN remove_comma_space(SubSeq(s, 3, Len(s)))
    ELSE <<s[1]>> \o remove_comma_space(Tail(s))

\* str::replace(['[', ']'], "").
remove_brackets(s) == SelectSeq(s, LAMBDA b : b # LBRACKET /\ b # RBRACKET)

bytes_slice_to_hex(slice) == remove_brackets(remove_comma_space(debug_hex(slice)))

\* Both loops index teb[index] with no check of the length.
parse_tree_entry_bytes(teb) ==
    LET i == find(teb, SP)
        mode == parse_usize(push_chars(Slice(teb, 0, i)))
        j == find_from(teb, NUL, i + 1)
    IN  IF i < 0 THEN Panic
        ELSE IF mode < 0 THEN Err("InvalidTreeEntry")
        ELSE IF j < 0 THEN Panic
        ELSE Ok([mode |-> mode,
                 name |-> push_chars(Slice(teb, i + 1, j)),
                 sha1_hash |-> bytes_slice_to_hex(Slice(teb, j + 1, Len(teb)))])

TreeEntry(mode, name, sha1_hash) == [mode |-> mode, name |-> name, sha1_hash |-> sha1_hash]

\* TreeEntry::from_bytes.
from_bytes(bytes) ==
    LET r == parse_tree_entry_bytes(bytes)
        mode == from_mode_value(r.val.mode)
    IN  IF r.tag = "Panic" THEN Panic
        ELSE IF r.tag = "Err" THEN Err("InvalidGitObject")
        ELSE IF mode.tag = "Err" THEN Err(mode.err)
        ELSE Ok(TreeEntry(mode.val, r.val.name, r.val.sha1_hash))

\* i + 21 for the index i of every NUL byte of v, in order.
RECURSIVE end_pos_from(_, _)
end_pos_from(v, i) ==
    IF i >= Len(v) THEN <<>>
    ELSE IF v[i + 1] = NUL THEN <<i + ENTRY_END_OFFSET>> \o end_pos_from(v, i + 1)
    ELSE end_pos_from(v, i + 1)

tree_entry_end_pos(v) == end_pos_from(v, 0)

\* &vec[prev_pos..*p] panics when p is past the end of vec.
extract_from_vec_at(vec, pos) ==
    IF \E k \in 1..Len(pos) : pos[k] > Len(vec) THEN Panic
    ELSE Ok([k \in 1..Len(pos) |-> Slice(vec, IF k = 1 THEN 0 ELSE pos[k - 1], pos[k])])

\* The loop of parse_str_tree_entry_vec over the slices: the first slice that
\* does not parse ends it.
RECURSIVE parse_slices(_, _)
parse_slices(slices, acc) ==
    IF slices = <<>> THEN Ok(acc)
    ELSE LET r == from_bytes(Head(slices))
         IN  IF r.tag # "Ok" THEN r
             ELSE parse_slices(Tail(slices), Append(acc, r.val))

parse_str_tree_entry_vec(content) ==
    LET tree_entry_bytes == extract_from_vec_at(content, tree_entry_end_pos(content))
    IN  IF tree_entry_bytes.tag = "Panic" THEN Panic
        ELSE parse_slices(tree_entry_bytes.val, <<>>)

\* A plausible slip: the kind is matched before the size is checked.
from_parts_bytes_kind_first(parts) ==
    IF parts.git_type # STR_tree THEN Err("UnknownGitType")
    ELSE IF parts.size # Len(parts.content) THEN Err("InvalidGitObject")
    ELSE LET r == parse_str_tree_entry_vec(parts.content)
         IN  IF r.tag = "Ok" THEN Ok(Tree(r.val)) ELSE r

from_parts_bytes(parts) ==
    IF parts.size # Len(parts.content) THEN Err("InvalidGitObject")
    ELSE IF parts.git_type = STR_tree
         THEN LET r == parse_str_tree_entry_vec(parts.content)
              IN  IF r.tag = "Ok" THEN Ok(Tree(r.val)) ELSE r
    ELSE Err("UnknownGitType")

\* ------------------------------------------------------------------ state

VARIABLES
    dirs,            \* the folders that exist under .git/objects
    files,           \* the object files: path -> bytes
    pc,              \* where each process is in its command
    cmd,             \* the command each process runs
    option,          \* its option argument
    content,         \* the text read from the input file
    str_git_object,  \* the canonical encoding built from it
    sha1_hash,       \* its identifier (for cat-file: the identifier asked for)
    bytes,           \* the compressed encoding
    out,             \* what the command printed or returned
    ops,             \* the commands started so far
    d_input,         \* decoder: the decompressed bytes of an object file
    d_path,          \* decoder: "string" (cat-file) or "bytes" (ls-tree)
    d_parts,         \* decoder: the GitObjectParts, or the error
    d_object,        \* decoder: the GitObject, or the error
    d_pc,            \* decoder: "parse", "from_parts" or "done"
    t_entries,       \* tree parser: the entries the payload was built from
    t_content,       \* tree parser: the payload
    t_pc,            \* tree parser: "scan", "extract", "loop" or "done"
    t_pos,           \* tree parser: the end positions
    t_slices,        \* tree parser: the slices still to parse
    t_tree_entry,    \* tree parser: the entries parsed so far
    t_result         \* tree parser: what parse_str_tree_entry_vec returns

storeVars == <<dirs, files, pc, cmd, option, content, str_git_object, sha1_hash, bytes, out, ops>>
decodeVars == <<d_input, d_path, d_parts, d_object, d_pc>>
treeVars == <<t_entries, t_content, t_pc, t_pos, t_slices, t_tree_entry, t_result>>
vars == <<storeVars, decodeVars, treeVars>>

\* ------------------------------------------------------------------ bounds

\* The commands started in one run.
MaxOps == 3

\* Two processes run commands side by side.
Procs == {"p1", "p2"}

\* The contents of the input files: text, text with a multi-byte character, a
\* NUL and a space, and bytes that are not UTF-8.
P_mixed == <<195, 169, 0, 32, 98, 97, 32, 0, 49, 50, 10>>
P_binary == <<255, 0>>
Payloads == {STR_hello, P_mixed, P_binary}

Identifier(p) == compute_sha1_hash(as_string(create_blob_with_content(p)))

\* An identifier no object has.
DEADBEEF == [i \in 1..(2 * DIGEST_BYTES) |-> IF i % 2 = 1 THEN 100 ELSE 101]

Identifiers == {Identifier(p) : p \in Payloads} \cup {DEADBEEF}

\* Where a write that fails stops: after no byte, or half way.
WriteCuts(b) == {0, Len(b) \div 2}

NoOut == [err |-> "", val |-> <<>>]

StoreInit ==
    /\ dirs = {}
    /\ files = <<>>
    /\ pc = [p \in Procs |-> "idle"]
    /\ cmd = [p \in Procs |-> ""]
    /\ option = [p \in Procs |-> ""]
    /\ content = [p \in Procs |-> <<>>]
    /\ str_git_object = [p \in Procs |-> <<>>]
    /\ sha1_hash = [p \in Procs |-> <<>>]
    /\ bytes = [p \in Procs |-> <<>>]
    /\ out = [p \in Procs |-> NoOut]
    /\ ops = 0

DecodeIdle ==
    /\ d_input = <<>>
    /\ d_path = ""
    /\ d_parts = Err("")
    /\ d_object = Err("")
    /\ d_pc = "off"

TreeIdle ==
    /\ t_entries = <<>>
    /\ t_content = <<>>
    /\ t_pc = "off"
    /\ t_pos = <<>>
    /\ t_slices = <<>>
    /\ t_tree_entry = <<>>
    /\ t_result = Err("")

\* ---------------------------------------------------------- store: actions

FilePath(p) == sha1_to_file_path(sha1_hash[p])

Exists(path) == path \in DOMAIN files

\* File::open, read_to_string, then the blob, its encoding, its identifier
\* and its compressed bytes: what git_hash_object and create_blob_object do
\* before they write.
ReadAndEncode(p, c, o, payload) ==
    /\ pc[p] = "idle"
    /\ ops < MaxOps
    /\ ops' = ops + 1
    /\ cmd' = [cmd EXCEPT ![p] = c]
    /\ option' = [option EXCEPT ![p] = o]
    /\ IF is_utf8(payload)
       THEN LET git_object == create_blob_with_content(payload)
                s == as_string(git_object)
            IN  /\ content' = [content EXCEPT ![p] = payload]
                /\ str_git_object' = [str_git_object EXCEPT ![p] = s]
                /\ sha1_hash' = [sha1_hash EXCEPT ![p] = compute_sha1_hash(s)]
                /\ bytes' = [bytes EXCEPT ![p] = zlib_compression(s).val]
       ELSE UNCHANGED <<content, str_git_object, sha1_hash, bytes>>

\* git hash-object [option] file: up to the write, or to the end without -w.
git_hash_object(p, o, payload) ==
    /\ ReadAndEncode(p, "hash-object", o, payload)
    /\ IF ~is_utf8(payload)
       THEN /\ out' = [out EXCEPT ![p] = [err |-> "File::read_to_string", val |-> <<>>]]
            /\ pc' = [pc EXCEPT ![p] = "done"]
       ELSE IF o = "-w"
       THEN /\ out' = out
            /\ pc' = [pc EXCEPT ![p] = "create_dir_all"]
       ELSE /\ out' = [out EXCEPT ![p] = [err |-> "", val |-> sha1_hash'[p]]]
            /\ pc' = [pc EXCEPT ![p] = "done"]
    /\ UNCHANGED <<dirs, files, decodeVars, treeVars>>

\* create_blob_object(file_path): up to the write.
create_blob_object(p, payload) ==
    /\ ReadAndEncode(p, "create_blob_object", "", payload)
    /\ IF ~is_utf8(payload)
       THEN /\ out' = [out EXCEPT ![p] = [err |-> "CreateBlob(File::read_to_string)", val |-> <<>>]]
            /\ pc' = [pc EXCEPT ![p] = "done"]
       ELSE /\ out' = out
            /\ pc' = [pc EXCEPT ![p] = "create_dir_all"]
    /\ UNCHANGED <<dirs, files, decodeVars, treeVars>>

\* How a store ends once write_bytes_to_file has returned: git_hash_object
\* prints the error, if any, and then the identifier; create_blob_object
\* returns the error, or the identifier.
AfterWrite(p, io_error) ==
    /\ pc' = [pc EXCEPT ![p] = "done"]
    /\ out' = [out EXCEPT ![p] =
          IF cmd[p] = "hash-object"
          THEN [err |-> IF io_error = "" THEN "" ELSE "write_bytes_to_file: " \o io_error,
                val |-> sha1_hash[p]]
          ELSE IF io_error = "" THEN [err |-> "", val |-> sha1_hash[p]]
          ELSE [err |-> "CreateBlob(write_bytes_to_file: " \o io_error \o ")", val |-> <<>>]]

\* write_bytes_to_file: fs::create_dir_all(folder_path).
create_dir_all(p) ==
    /\ pc[p] = "create_dir_all"
    /\ dirs' = dirs \cup {FilePath(p)[1]}
    /\ pc' = [pc EXCEPT ![p] = "create_new"]
    /\ UNCHANGED <<files, cmd, option, content, str_git_object, sha1_hash, bytes, out, ops>>
    /\ UNCHANGED <<decodeVars, treeVars>>

\* write_bytes_to_file: File::create_new, which fails when the file exists.
create_new(p) ==
    /\ pc[p] = "create_new"
    /\ IF Exists(FilePath(p))
       THEN /\ AfterWrite(p, "AlreadyExists")
            /\ files' = files
       ELSE /\ files' = [q \in DOMAIN files \cup {FilePath(p)} |->
                            IF q = FilePath(p) THEN <<>> ELSE files[q]]
            /\ pc' = [pc EXCEPT ![p] = "write_all"]
            /\ out' = out
    /\ UNCHANGED <<dirs, cmd, option, content, str_git_object, sha1_hash, bytes, ops>>
    /\ UNCHANGED <<decodeVars, treeVars>>

\* write_bytes_to_file: file.write_all(content) writes every byte.
write_all(p) ==
    /\ pc[p] = "write_all"
    /\ files' = [files EXCEPT ![FilePath(p)] = bytes[p]]
    /\ AfterWrite(p, "")
    /\ UNCHANGED <<dirs, cmd, option, content, str_git_object, sha1_hash, bytes, ops>>
    /\ UNCHANGED <<decodeVars, treeVars>>

\* write_bytes_to_file: file.write_all(content) fails (the disk is full)
\* after k bytes.
write_all_fails(p, k) ==
    /\ pc[p] = "write_all"
    /\ files' = [files EXCEPT ![FilePath(p)] = SubSeq(bytes[p], 1, k)]
    /\ AfterWrite(p, "StorageFull")
    /\ UNCHANGED <<dirs, cmd, option, content, str_git_object, sha1_hash, bytes, ops>>
    /\ UNCHANGED <<decodeVars, treeVars>>

\* What git_cat_file prints for the bytes of an object file.
cat_file_output(o, decompressed) ==
    IF decompressed.tag = "Err" THEN [err |-> "zlib_decompression", val |-> <<>>]
    ELSE IF ~is_utf8(decompressed.val) THEN [err |-> "String::from_utf8", val |-> <<>>]
    ELSE LET parts == parse_str_to_git_object_parts_string(decompressed.val)
             git_object == from_parts_string(parts.val)
         IN  IF parts.tag = "Err"
             THEN [err |-> "parse_str_to_git_object_parts: " \o parts.err, val |-> <<>>]
             ELSE IF git_object.tag = "Err"
             THEN [err |-> "GitObject::from_parts: " \o git_object.err, val |-> <<>>]
             ELSE [err |-> "", val |-> IF o = "-p" THEN git_object.val.content ELSE <<>>]

\* git cat-file [option] hash.
git_cat_file(p, o, blob_sha) ==
    /\ pc[p] = "idle"
    /\ ops < MaxOps
    /\ ops' = ops + 1
    /\ cmd' = [cmd EXCEPT ![p] = "cat-file"]
    /\ option' = [option EXCEPT ![p] = o]
    /\ sha1_hash' = [sha1_hash EXCEPT ![p] = blob_sha]
    /\ pc' = [pc EXCEPT ![p] = "done"]
    /\ LET path == sha1_to_file_path(blob_sha)
       IN  IF ~Exists(path)
           THEN out' = [out EXCEPT ![p] = [err |-> "File::open: NotFound", val |-> <<>>]]
           ELSE \E r \in zlib_decompression(files[path]) :
                    out' = [out EXCEPT ![p] = cat_file_output(o, r)]
    /\ UNCHANGED <<dirs, files, content, str_git_object, bytes, decodeVars, treeVars>>

\* The process has exited; the next command starts afresh.
Exit(p) ==
    /\ pc[p] = "done"
    /\ pc' = [pc EXCEPT ![p] = "idle"]
    /\ cmd' = [cmd EXCEPT ![p] = ""]
    /\ option' = [option EXCEPT ![p] = ""]
    /\ content' = [content EXCEPT ![p] = <<>>]
    /\ str_git_object' = [str_git_object EXCEPT ![p] = <<>>]
    /\ sha1_hash' = [sha1_hash EXCEPT ![p] = <<>>]
    /\ bytes' = [bytes EXCEPT ![p] = <<>>]
    /\ out' = [out EXCEPT ![p] = NoOut]
    /\ UNCHANGED <<dirs, files, ops, decodeVars, treeVars>>

Init == StoreInit /\ DecodeIdle /\ TreeIdle

Next ==
    \/ \E p \in Procs, o \in {"", "-w"}, x \in Payloads : git_hash_object(p, o, x)
    \/ \E p \in Procs, x \in Payloads : create_blob_object(p, x)
    \/ \E p \in Procs : create_dir_all(p)
    \/ \E p \in Procs : create_new(p)
    \/ \E p \in Procs : write_all(p)
    \/ \E p \in Procs : \E k \in WriteCuts(bytes[p]) : write_all_fails(p, k)
    \/ \E p \in Procs, o \in {"", "-p"}, h \in Identifiers : git_cat_file(p, o, h)
    \/ \E p \in Procs : Exit(p)

Spec == Init /\ [][Next]_vars

\* ----------------------------------------------------------- store: claims

IsStore(p) ==
    \/ cmd[p] = "create_blob_object"
    \/ cmd[p] = "hash-object" /\ option[p] = "-w"

Encoded(x) == zlib_compression(as_string(create_blob_with_content(x))).val

\* C1: once a store of a payload has written the file of its identifier,
\* another store of the same payload returns that identifier too, and the
\* file still holds the bytes the first store wrote.
C1_SecondStoreSameIdentifier ==
    \A p, q \in Procs :
        (/\ p # q
         /\ pc[p] = "done" /\ pc[q] = "done"
         /\ IsStore(p) /\ IsStore(q)
         /\ out[p].err = ""
         /\ sha1_hash[q] = sha1_hash[p])
        => /\ out[q].val = out[p].val
           /\ files[FilePath(p)] = bytes[p]

\* C2: the step of a store that finds the file of its identifier already
\* there ends the store with success: it returns the identifier and reports
\* no error.
C2_ExistingFileIsSuccess ==
    [][\A p \in Procs :
          (pc[p] = "create_new" /\ Exists(FilePath(p)) /\ pc'[p] = "done")
          => out'[p] = [err |-> "", val |-> sha1_hash[p]]]_vars

WriteErrors ==
    {"write_bytes_to_file: AlreadyExists", "write_bytes_to_file: StorageFull",
     "CreateBlob(write_bytes_to_file: AlreadyExists)",
     "CreateBlob(write_bytes_to_file: StorageFull)"}

\* C7: for every byte payload x, a store of x whose write does not fail
\* returns an identifier under which the object file exists, and cat-file -p
\* of the identifier of x, once the file of x is written, prints exactly x.
C7_RoundTrip ==
    [][\A p \in Procs :
          /\ (pc'[p] = "done" /\ pc[p] # "done" /\ IsStore(p)' /\ out'[p].err \notin WriteErrors)
             => /\ out'[p].val # <<>>
                /\ sha1_to_file_path(out'[p].val) \in DOMAIN files'
          /\ \A x \in Payloads :
                (/\ pc[p] = "idle" /\ pc'[p] = "done"
                 /\ cmd'[p] = "cat-file" /\ option'[p] = "-p"
                 /\ sha1_hash'[p] = Identifier(x)
                 /\ Exists(sha1_to_file_path(Identifier(x)))
                 /\ files[sha1_to_file_path(Identifier(x))] = Encoded(x))
                => out'[p] = [err |-> "", val |-> x]]_vars

\* C7 with the payloads that are UTF-8 only: what the code does keep.
Utf8RoundTrip ==
    [][\A p \in Procs : \A x \in {y \in Payloads : is_utf8(y)} :
          (/\ pc[p] = "idle" /\ pc'[p] = "done"
           /\ cmd'[p] = "cat-file" /\ option'[p] = "-p"
           /\ sha1_hash'[p] = Identifier(x)
           /\ Exists(sha1_to_file_path(Identifier(x)))
           /\ files[sha1_to_file_path(Identifier(x))] = Encoded(x))
          => out'[p] = [err |-> "", val |-> x]]_vars

HasEncoded(p) ==
    /\ cmd[p] \in {"hash-object", "create_blob_object"}
    /\ sha1_hash[p] # <<>>

HELLO_ENCODING == <<98, 108, 111, 98, 32, 54, 0, 104, 101, 108, 108, 111, 10>>

\* C8: what a store hashes and compresses is the kind tag "blob", one space,
\* the byte length of the payload in decimal, one NUL, then the payload; the
\* identifier is the digest of that sequence, not of the payload; for
\* "hello\n" the sequence is the 13 bytes blob 6\0hello\n.
C8_CanonicalEncoding ==
    \A p \in Procs :
        HasEncoded(p) =>
            LET a == split_once(str_git_object[p], NUL)
                b == split_once(a.first, SP)
            IN  /\ a.found /\ b.found
                /\ b.first = get_type(create_blob_with_content(content[p]))
                /\ b.rest # <<>>
                /\ \A i \in 1..Len(b.rest) : IsDigit(b.rest[i])
                /\ Len(b.rest) > 1 => b.rest[1] # ZERO
                /\ digits_value(b.rest, 0) = Len(content[p])
                /\ a.rest = content[p]
                /\ sha1_hash[p] = compute_sha1_hash(str_git_object[p])
                /\ sha1_hash[p] # compute_sha1_hash(content[p])
                /\ bytes[p] = zlib_compression(str_git_object[p]).val
                /\ content[p] = STR_hello => str_git_object[p] = HELLO_ENCODING
                /\ (pc[p] = "done" /\ out[p].val # <<>>) => out[p].val = sha1_hash[p]

\* C8's case: a store of "hello\n" has written its file and printed the
\* identifier, and a store of the payload with a multi-byte character has
\* its encoding.
C8_Witness ==
    /\ \E p \in Procs :
          /\ pc[p] = "done" /\ cmd[p] = "hash-object" /\ option[p] = "-w"
          /\ content[p] = STR_hello
          /\ out[p] = [err |-> "", val |-> sha1_hash[p]]
          /\ files[FilePath(p)] = bytes[p]
    /\ \E p \in Procs : HasEncoded(p) /\ content[p] = P_mixed

\* C10: every object file that exists holds the complete compressed encoding
\* of an object whose identifier is the file's path.
C10_StoreIntegrity ==
    \A path \in DOMAIN files :
        \E x \in Payloads :
            /\ path = sha1_to_file_path(Identifier(x))
            /\ files[path] = Encoded(x)

\* ------------------------------------------------------- decoder: actions

\* The largest size a header of the decoder's inputs declares, besides the
\* lengths of the contents themselves.
MaxSize == 4

STR_abc == <<97, 98, 99>>
STR_xyz == <<120, 121, 122>>
H_zero == [i \in 1..DIGEST_BYTES |-> 0]
H_ab == [i \in 1..DIGEST_BYTES |-> 171]
H_mid == [i \in 1..DIGEST_BYTES |-> IF i = 6 THEN 0 ELSE 16 + i]
STR_src == <<115, 114, 99>>

\* One entry of a directory listing: the mode digits, a space, the name, a
\* NUL, the 20 hash bytes.
EncodeEntry(e) == e.mode \o <<SP>> \o e.name \o <<NUL>> \o e.hash

D_Kinds == {STR_blob, STR_tree, STR_commit, STR_xyz, <<>>}
D_Contents ==
    {<<>>, STR_abc, <<97, 0, 32, 98>>,
     EncodeEntry([mode |-> usize_to_string(MODE_Directory), name |-> STR_src, hash |-> H_ab])}
D_Sizes ==
    {usize_to_string(n) : n \in (0..MaxSize) \cup {Len(c) : c \in D_Contents}}
        \cup {<<>>, <<120>>, <<PLUS, 51>>, <<ZERO, 51>>, <<255>>}

D_Input(kind, space, size, nul, c) ==
    kind \o (IF space THEN <<SP>> ELSE <<>>) \o size \o (IF nul THEN <<NUL>> ELSE <<>>) \o c

DecodeInit ==
    /\ \E kind \in D_Kinds, space \in BOOLEAN, size \in D_Sizes, nul \in BOOLEAN, c \in D_Contents :
          d_input = D_Input(kind, space, size, nul, c)
    /\ d_path \in {"string", "bytes"}
    \* git_cat_file hands the decoder a String: String::from_utf8 came first.
    /\ d_path = "string" => is_utf8(d_input)
    /\ d_parts = Err("")
    /\ d_object = Err("")
    /\ d_pc = "parse"

\* git_cat_file: parse_str_to_git_object_parts_string, and the return on Err.
decode_string ==
    /\ d_pc = "parse" /\ d_path = "string"
    /\ d_parts' = parse_str_to_git_object_parts_string(d_input)
    /\ d_pc' = IF d_parts'.tag = "Ok" THEN "from_parts" ELSE "done"
    /\ UNCHANGED <<d_input, d_path, d_object, storeVars, treeVars>>

\* git_ls_tree: parse_str_to_git_object_parts_bytes, and the return on Err.
decode_bytes ==
    /\ d_pc = "parse" /\ d_path = "bytes"
    /\ d_parts' = parse_str_to_git_object_parts_bytes(d_input)
    /\ d_pc' = IF d_parts'.tag = "Ok" THEN "from_parts" ELSE "done"
    /\ UNCHANGED <<d_input, d_path, d_object, storeVars, treeVars>>

\* git_cat_file: GitObject::from_parts_string.
construct_string ==
    /\ d_pc = "from_parts" /\ d_path = "string"
    /\ d_object' = from_parts_string(d_parts.val)
    /\ d_pc' = "done"
    /\ UNCHANGED <<d_input, d_path, d_parts, storeVars, treeVars>>

\* git_ls_tree: GitObject::from_parts_bytes.
construct_bytes ==
    /\ d_pc = "from_parts" /\ d_path = "bytes"
    /\ d_object' = from_parts_bytes(d_parts.val)
    /\ d_pc' = "done"
    /\ UNCHANGED <<d_input, d_path, d_parts, storeVars, treeVars>>

InitDecode == StoreInit /\ DecodeInit /\ TreeIdle

NextDecode ==
    \/ decode_string
    \/ decode_bytes
    \/ construct_string
    \/ construct_bytes

SpecDecode == InitDecode /\ [][NextDecode]_vars

\* -------------------------------------------------------- decoder: claims

D_Header == IF find(d_input, NUL) < 0 THEN d_input ELSE Slice(d_input, 0, find(d_input, NUL))
D_SizeField ==
    LET f == Slice(D_Header, find(D_Header, SP) + 1, Len(D_Header))
    IN  IF f # <<>> /\ f[1] = PLUS THEN Tail(f) ELSE f
D_Kind == Slice(D_Header, 0, find(D_Header, SP))

\* The input has no NUL, no space before the NUL, a size that is no number,
\* or a kind that is not one the path decodes.
D_Malformed ==
    \/ find(d_input, NUL) < 0
    \/ find(D_Header, SP) < 0
    \/ D_SizeField = <<>>
    \/ \E i \in 1..Len(D_SizeField) : ~IsDigit(D_SizeField[i])
    \/ D_Kind # (IF d_path = "string" THEN STR_blob ELSE STR_tree)

D_Returned == IF d_parts.tag = "Ok" THEN d_object ELSE d_parts

\* C5: decoding a malformed input returns an error value on both paths: it
\* neither panics nor yields an object.
C5_MalformedIsError ==
    (d_pc = "done" /\ D_Malformed) => D_Returned.tag = "Err"

\* C5 on the blob path alone: what the code does keep.
MalformedIsErrorOnStringPath ==
    (d_pc = "done" /\ d_path = "string" /\ D_Malformed) => D_Returned.tag = "Err"

\* --------------------------------------------------- tree parser: actions

\* The entries of one synthesized directory listing; the modes are the four
\* of the enumeration and 999999.
MaxEntries == 2

T_Modes ==
    {usize_to_string(m) : m \in {MODE_RegularFile, MODE_ExecutableFile, MODE_SymbolicLink,
                                 MODE_Directory, 999999}}
\* "src", "a b" and a name with a two-byte character.
T_Names == {STR_src, <<97, SP, 98>>, <<195, 169>>}
T_Hashes == {H_zero, H_ab, H_mid}
T_Entries == [mode : T_Modes, name : T_Names, hash : T_Hashes]

RECURSIVE EncodeEntries(_)
EncodeEntries(es) ==
    IF es = <<>> THEN <<>> ELSE EncodeEntry(Head(es)) \o EncodeEntries(Tail(es))

\* The bytes cut off the end of a listing: none, one, or the whole hash.
T_Cuts == {0, 1, DIGEST_BYTES}

TreeInit ==
    /\ t_entries \in UNION {[1..n -> T_Entries] : n \in 0..MaxEntries}
    /\ \E cut \in T_Cuts :
          /\ cut > 0 => t_entries # <<>>
          /\ t_content = SubSeq(EncodeEntries(t_entries), 1, Len(EncodeEntries(t_entries)) - cut)
    /\ t_pc = "scan"
    /\ t_pos = <<>>
    /\ t_slices = <<>>
    /\ t_tree_entry = <<>>
    /\ t_result = Err("")

\* parse_str_tree_entry_vec: tree_entry_end_pos(content).
scan_end_pos ==
    /\ t_pc = "scan"
    /\ t_pos' = tree_entry_end_pos(t_content)
    /\ t_pc' = "extract"
    /\ UNCHANGED <<t_entries, t_content, t_slices, t_tree_entry, t_result, storeVars, decodeVars>>

\* parse_str_tree_entry_vec: extract_from_vec_at(content, &pos[..]).
extract_slices ==
    /\ t_pc = "extract"
    /\ LET r == extract_from_vec_at(t_content, t_pos)
       IN  IF r.tag = "Panic"
           THEN /\ t_result' = Panic
                /\ t_pc' = "done"
                /\ t_slices' = t_slices
           ELSE /\ t_slices' = r.val
                /\ t_pc' = "loop"
                /\ t_result' = t_result
    /\ UNCHANGED <<t_entries, t_content, t_pos, t_tree_entry, storeVars, decodeVars>>

\* parse_str_tree_entry_vec: one turn of the loop, TreeEntry::from_bytes(teb);
\* an error returns at once and the entries parsed so far are dropped.
parse_entry ==
    /\ t_pc = "loop"
    /\ t_slices # <<>>
    /\ LET r == from_bytes(Head(t_slices))
       IN  IF r.tag = "Ok"
           THEN /\ t_tree_entry' = Append(t_tree_entry, r.val)
                /\ t_slices' = Tail(t_slices)
                /\ UNCHANGED <<t_pc, t_result>>
           ELSE /\ t_result' = r
                /\ t_pc' = "done"
                /\ t_tree_entry' = <<>>
                /\ t_slices' = <<>>
    /\ UNCHANGED <<t_entries, t_content, t_pos, storeVars, decodeVars>>

\* parse_str_tree_entry_vec: Ok(tree_entry) after the loop.
return_entries ==
    /\ t_pc = "loop"
    /\ t_slices = <<>>
    /\ t_result' = Ok(t_tree_entry)
    /\ t_pc' = "done"
    /\ UNCHANGED <<t_entries, t_content, t_pos, t_slices, t_tree_entry, storeVars, decodeVars>>

InitTree == StoreInit /\ DecodeIdle /\ TreeInit

NextTree ==
    \/ scan_end_pos
    \/ extract_slices
    \/ parse_entry
    \/ return_entries

SpecTree == InitTree /\ [][NextTree]_vars

\* ---------------------------------------------------- tree parser: claims

T_WellFramed == t_content = EncodeEntries(t_entries)

T_KnownModes ==
    {usize_to_string(m) : m \in {MODE_RegularFile, MODE_ExecutableFile, MODE_SymbolicLink,
                                 MODE_Directory}}

T_ModeOf(digits) ==
    IF digits = usize_to_string(MODE_RegularFile) THEN "RegularFile"
    ELSE IF digits = usize_to_string(MODE_ExecutableFile) THEN "ExecutableFile"
    ELSE IF digits = usize_to_string(MODE_SymbolicLink) THEN "SymbolicLink"
    ELSE "Directory"

T_Expected(e) == TreeEntry(T_ModeOf(e.mode), e.name, to_hex(e.hash))

\* C3: a listing of N entries with modes of the enumeration parses to exactly
\* those N entries in order: the mode, the name, and the 40 lowercase hex
\* characters of the 20 hash bytes, zero bytes included.
C3_ParsesEveryEntry ==
    (/\ t_pc = "done"
     /\ T_WellFramed
     /\ \A k \in 1..Len(t_entries) : t_entries[k].mode \in T_KnownModes)
    => /\ t_result.tag = "Ok"
       /\ Len(t_result.val) = Len(t_entries)
       /\ \A k \in 1..Len(t_entries) : t_result.val[k] = T_Expected(t_entries[k])

\* C3 for names of ASCII bytes and hashes with no zero byte: what the code
\* does keep.
ParsesEntriesWithoutZeroBytes ==
    (/\ t_pc = "done"
     /\ T_WellFramed
     /\ \A k \in 1..Len(t_entries) :
           /\ t_entries[k].mode \in T_KnownModes
           /\ t_entries[k].hash = H_ab
           /\ \A i \in 1..Len(t_entries[k].name) : t_entries[k].name[i] < 128)
    => /\ t_result.tag = "Ok"
       /\ Len(t_result.val) = Len(t_entries)
       /\ \A k \in 1..Len(t_entries) : t_result.val[k] = T_Expected(t_entries[k])

\* C6: a listing cut short inside its last hash is an error value, and the
\* empty listing parses to no entry.
C6_TruncatedIsError ==
    t_pc = "done" =>
        /\ t_content = <<>> => (t_result.tag = "Ok" /\ Len(t_result.val) = 0)
        /\ ~T_WellFramed => t_result.tag = "Err"

\* C9: a well-framed listing with an entry whose mode is not of the
\* enumeration fails with UnknownEntryMode.
C9_UnknownModeFails ==
    (/\ t_pc = "done"
     /\ T_WellFramed
     /\ \E k \in 1..Len(t_entries) : t_entries[k].mode \notin T_KnownModes)
    => /\ t_result.tag = "Err"
       /\ t_result.err = "UnknownEntryMode"

\* C9 for hashes with no zero byte: what the code does keep.
UnknownModeFailsWithoutZeroBytes ==
    (/\ t_pc = "done"
     /\ T_WellFramed
     /\ \A k \in 1..Len(t_entries) : t_entries[k].hash = H_ab
     /\ \E k \in 1..Len(t_entries) : t_entries[k].mode \notin T_KnownModes)
    => /\ t_result.tag = "Err"
       /\ t_result.err = "UnknownEntryMode"

\* The steps of the loop give what parse_str_tree_entry_vec gives.
StepsAgreeWithParse ==
    t_pc = "done" =>
        /\ t_result.tag = parse_str_tree_entry_vec(t_content).tag
        /\ t_result.err = parse_str_tree_entry_vec(t_content).err

====
